---- MODULE Spec2Model ----
(***************************************************************************)
(* Model of the request layer of ChatGPT-NW (requests.ts): the streaming   *)
(* transport requestChatStream and the cancellation registry              *)
(* ControllerPool.  The event loop is single-threaded: each action below   *)
(* is one task (a call from the caller, a timer callback, or the           *)
(* continuation of an await together with the microtasks it triggers).     *)
(***************************************************************************)
EXTENDS Integers, Sequences, FiniteSets, TLC

(***************************************************************************)
(* Bounds of the model.                                                    *)
(***************************************************************************)
NHandles == 2          \* AbortController objects that exist
MaxChunks == 2         \* chunks a response body delivers before it must end
MaxChunkLen == 2       \* bytes in one chunk

Handles == 1..NHandles
NoHandle == 0
Streams == {1, 2}      \* calls of requestChatStream; call s owns controller s
SessionIndexes == {1, 11}
MessageIds == {1, 11}
Pairs == SessionIndexes \X MessageIds

VARIABLES
  controllers,   \* ControllerPool.controllers: key string -> AbortController
  aborted,       \* controller.signal.aborted, per AbortController
  lastOp,        \* the latest ControllerPool call: arguments, abort() calls, result
  ghost,         \* per (sessionIndex, messageId): what the caller did with it
  pc,            \* per stream: where requestChatStream is suspended
  res,           \* per stream: HTTP status of the response (0: none yet)
  reqTimeoutId,  \* per stream: the overall-response timer is armed
  resTimeoutId,  \* per stream: the idle timer is armed
  responseText,  \* per stream: the accumulated text
  decoder,       \* per stream: bytes the TextDecoder holds back
  received,      \* per stream: the chunks read() has delivered
  trace,         \* per stream: the callbacks and reads, in order
  session,       \* currentSession(): its messages and mask.modelConfig
  req,           \* the latest call of makeRequestParam and the request it built
  inflight,      \* the summarization sub-requests awaiting their response
  lastSum,       \* the latest summarization response and what it changed
  handled        \* per stream: the key its caller uses and the number of
                 \* callbacks the caller has reacted to

poolVars == <<controllers, aborted, lastOp, ghost>>
streamVars == <<pc, res, reqTimeoutId, resTimeoutId, responseText, decoder,
                received, trace>>
compressionVars == <<session, req, inflight, lastSum>>
vars == <<controllers, aborted, lastOp, ghost, pc, res, reqTimeoutId,
          resTimeoutId, responseText, decoder, received, trace, session, req,
          inflight, lastSum, handled>>

(***************************************************************************)
(* ControllerPool.key: `${sessionIndex},${messageIndex}`.  A number is     *)
(* written in decimal, most significant digit first.                       *)
(***************************************************************************)
DigitChar(d) == <<"0", "1", "2", "3", "4", "5", "6", "7", "8", "9">>[d + 1]

RECURSIVE NumberToString(_)
NumberToString(n) ==
  IF n < 0 THEN <<"-">> \o NumberToString(0 - n)
  ELSE IF n < 10 THEN <<DigitChar(n)>>
  ELSE NumberToString(n \div 10) \o <<DigitChar(n % 10)>>

\* A slip: the comma is left out of the template
keyBare(sessionIndex, messageIndex) ==
  NumberToString(sessionIndex) \o NumberToString(messageIndex)

key(sessionIndex, messageIndex) ==
  NumberToString(sessionIndex) \o <<",">> \o NumberToString(messageIndex)

Range(f) == {f[x] : x \in DOMAIN f}

\* A slip: the controllers share one signal
AbortSignalsAll(H) == [h \in Handles |-> aborted[h] \/ H # {}]

\* controller.abort() on every handle of H: the signal becomes (or stays) aborted
AbortSignals(H) == [h \in Handles |-> aborted[h] \/ h \in H]

(***************************************************************************)
(* Streaming transport: requestChatStream.                                 *)
(***************************************************************************)
NoStatus == 0          \* onError called without a statusCode
NoContent == 204       \* a success status whose response has no body

Statuses == {200, NoContent, 401, 404, 500}
\* A slip: the upper end of the success range is not tested
OkLoose(status) == status >= 200

Ok(status) == status >= 200 /\ status <= 299          \* res.ok

\* Bytes of a response body: an ASCII letter, the lead byte of a two-byte
\* UTF-8 sequence, and a continuation byte.
Bytes == {"a", "L", "T"}
Replacement == "?"     \* U+FFFD
TwoByteChar == "e"     \* the character the sequence L T encodes

RECURSIVE SeqsUpTo(_, _)
SeqsUpTo(S, n) ==
  IF n = 0 THEN {<<>>}
  ELSE LET shorter == SeqsUpTo(S, n - 1)
       IN  shorter \cup {Append(q, x) : q \in shorter, x \in S}

ChunkValues == SeqsUpTo(Bytes, MaxChunkLen)

\* One byte through TextDecoder.decode(value, {stream: true}); held is the
\* incomplete sequence carried over from the bytes before.
DecodeByte(held, b) ==
  IF held = <<>>
  THEN IF b = "a" THEN [text |-> <<"a">>, held |-> <<>>]
       ELSE IF b = "L" THEN [text |-> <<>>, held |-> <<"L">>]
       ELSE [text |-> <<Replacement>>, held |-> <<>>]
  ELSE IF b = "T" THEN [text |-> <<TwoByteChar>>, held |-> <<>>]
       ELSE IF b = "a" THEN [text |-> <<Replacement, "a">>, held |-> <<>>]
       ELSE [text |-> <<Replacement>>, held |-> <<"L">>]

RECURSIVE decode(_, _)
decode(held, value) ==
  IF value = <<>> THEN [text |-> <<>>, held |-> held]
  ELSE LET first == DecodeByte(held, Head(value))
           rest == decode(first.held, Tail(value))
       IN  [text |-> first.text \o rest.text, held |-> rest.held]

\* Entries of trace: the callbacks of the caller, the reads issued on the
\* response body, and the events of the environment.
Event(ev) == [ev |-> ev, text |-> <<>>, done |-> FALSE, err |-> "", status |-> NoStatus]
onController == Event("onController")
ReadIssued == Event("read")
onMessage(message, done) == [Event("onMessage") EXCEPT !.text = message, !.done = done]
onError(error, statusCode) == [Event("onError") EXCEPT !.err = error, !.status = statusCode]

\* const finish = () => { options?.onMessage(responseText, true); controller.abort(); }
\* The callback part; the abort() is in the actions that call finish.
finish(text) == <<onMessage(text, TRUE)>>

\* A slip: the catch block reports nothing
catchSilent(error) == <<>>

\* catch (err) { options?.onError(err as Error); }
catch(error) == <<onError(error, NoStatus)>>

\* A slip: responseText = text
AccumulateReplaced(text, more) == more

\* responseText += text
Accumulate(text, more) == text \o more

\* A slip: decoder.decode(content.value) without { stream: true }
CarryNothing(held) == <<>>

\* { stream: true }: the decoder keeps the incomplete sequence at the end of
\* a chunk for the next call
Carry(held) == held

\* A slip: the 401 branch is lost
StatusErrorGeneric(status) == "Stream Error"

\* The error of a response that is not ok
StatusError(status) == IF status = 401 THEN "Unauthorized" ELSE "Stream Error"

\* A pending fetch or read of stream s is rejected when abort() is called on a
\* controller whose signal is not aborted yet.
Pending(s) == pc[s] \in {"fetch", "read"}

\* A slip: the signal is not attached to the request
RejectsNothing(s, H) == FALSE

\* A slip: abort() raises in the stream whether or not an await is pending
RejectsFinished(s, H) == s \in H

Rejects(s, H) == s \in H /\ ~aborted[s] /\ Pending(s)

\* The caller calls abort() on the controllers of H (directly or through the
\* ControllerPool): every pending await of those streams is rejected and its
\* continuation, the catch block, runs before any timer or network task.  The
\* idle timer armed before the rejected read stays armed.
CallerAborts(H) ==
  /\ aborted' = AbortSignals(H)
  /\ pc' = [s \in Streams |-> IF Rejects(s, H) THEN "done" ELSE pc[s]]
  /\ trace' = [s \in Streams |->
                 IF Rejects(s, H)
                 THEN trace[s] \o <<Event("cancel")>> \o catch("AbortError")
                 ELSE trace[s]]
  /\ UNCHANGED <<res, reqTimeoutId, resTimeoutId, responseText, decoder, received>>

\* requestChatStream(messages, options) up to the first await.  makeRequestParam
\* runs before the try block; then the controller is created, the
\* overall-response timer armed and the fetch issued.
Call(s) ==
  /\ pc[s] = "idle"
  /\ pc' = [pc EXCEPT ![s] = "fetch"]
  /\ aborted' = [aborted EXCEPT ![s] = FALSE]
  /\ reqTimeoutId' = [reqTimeoutId EXCEPT ![s] = TRUE]
  /\ UNCHANGED <<controllers, lastOp, ghost, res, resTimeoutId, responseText,
                 decoder, received, trace>>

\* makeRequestParam throws (it dereferences the session and every message):
\* the exception is raised outside the try block and rejects the promise
\* requestChatStream returned.
CallThrows(s) ==
  /\ pc[s] = "idle"
  /\ pc' = [pc EXCEPT ![s] = "threw"]
  /\ trace' = [trace EXCEPT ![s] = Append(@, Event("assemblyError"))]
  /\ UNCHANGED <<poolVars, res, reqTimeoutId, resTimeoutId, responseText,
                 decoder, received>>

\* await futureRes is rejected (network failure, or an exception raised in the
\* try block before the await): the catch block runs; reqTimeoutId is not
\* cleared.
FetchRejects(s) ==
  /\ pc[s] = "fetch"
  /\ pc' = [pc EXCEPT ![s] = "done"]
  /\ trace' = [trace EXCEPT ![s] = @ \o <<Event("fetchError")>> \o catch("NetworkError")]
  /\ UNCHANGED <<poolVars, res, reqTimeoutId, resTimeoutId, responseText,
                 decoder, received>>

\* setTimeout(() => controller.abort(), TIME_OUT_MS) fires.
ReqTimeout(s) ==
  /\ reqTimeoutId[s]
  /\ reqTimeoutId' = [reqTimeoutId EXCEPT ![s] = FALSE]
  /\ aborted' = AbortSignals({s})
  /\ pc' = [pc EXCEPT ![s] = IF Rejects(s, {s}) THEN "done" ELSE @]
  /\ trace' = [trace EXCEPT ![s] =
                 IF Rejects(s, {s})
                 THEN @ \o <<Event("reqTimeout")>> \o catch("AbortError")
                 ELSE @]
  /\ UNCHANGED <<controllers, lastOp, ghost, res, resTimeoutId, responseText,
                 decoder, received>>

\* The response headers arrive with a status that is not ok.
ResponseNotOk(s, status) ==
  /\ pc[s] = "fetch"
  /\ ~Ok(status)
  /\ res' = [res EXCEPT ![s] = status]
  /\ reqTimeoutId' = [reqTimeoutId EXCEPT ![s] = FALSE]
  /\ pc' = [pc EXCEPT ![s] = "done"]
  /\ trace' = [trace EXCEPT ![s] = Append(@, onError(StatusError(status), status))]
  /\ UNCHANGED <<poolVars, resTimeoutId, responseText, decoder, received>>

\* The response headers arrive with an ok status and a body: onController,
\* then the first iteration of the loop arms the idle timer and reads.
ResponseOk(s, status) ==
  /\ pc[s] = "fetch"
  /\ Ok(status) /\ status # NoContent
  /\ res' = [res EXCEPT ![s] = status]
  /\ reqTimeoutId' = [reqTimeoutId EXCEPT ![s] = FALSE]
  /\ resTimeoutId' = [resTimeoutId EXCEPT ![s] = TRUE]
  /\ pc' = [pc EXCEPT ![s] = "read"]
  /\ trace' = [trace EXCEPT ![s] = @ \o <<onController, ReadIssued>>]
  /\ UNCHANGED <<poolVars, responseText, decoder, received>>

\* The response is ok but has no body: reader is undefined, so is content,
\* and the loop breaks at once; finish() reports the empty text.
ResponseNoBody(s, status) ==
  /\ pc[s] = "fetch"
  /\ status = NoContent
  /\ res' = [res EXCEPT ![s] = status]
  /\ reqTimeoutId' = [reqTimeoutId EXCEPT ![s] = FALSE]
  /\ pc' = [pc EXCEPT ![s] = "done"]
  /\ trace' = [trace EXCEPT ![s] = @ \o <<onController>> \o finish(responseText[s])]
  /\ aborted' = AbortSignals({s})
  /\ UNCHANGED <<controllers, lastOp, ghost, resTimeoutId, responseText,
                 decoder, received>>

\* reader.read() resolves with a chunk: the idle timer is cleared, the chunk
\* decoded and appended, onMessage(responseText, false) called; then either
\* the loop breaks (content.done) and finish() runs, or the idle timer is
\* armed again and the next read issued.
Chunk(s, value, done) ==
  /\ pc[s] = "read"
  /\ Len(received[s]) < MaxChunks
  /\ LET d == decode(decoder[s], value)
         text == Accumulate(responseText[s], d.text)
     IN  /\ responseText' = [responseText EXCEPT ![s] = text]
         /\ decoder' = [decoder EXCEPT ![s] = Carry(d.held)]
         /\ received' = [received EXCEPT ![s] = Append(@, value)]
         /\ IF done
            THEN /\ resTimeoutId' = [resTimeoutId EXCEPT ![s] = FALSE]
                 /\ pc' = [pc EXCEPT ![s] = "done"]
                 /\ trace' = [trace EXCEPT ![s] =
                                @ \o <<Event("chunk"), onMessage(text, FALSE)>> \o finish(text)]
                 /\ aborted' = AbortSignals({s})
            ELSE /\ resTimeoutId' = [resTimeoutId EXCEPT ![s] = TRUE]
                 /\ pc' = pc
                 /\ trace' = [trace EXCEPT ![s] =
                                @ \o <<Event("chunk"), onMessage(text, FALSE), ReadIssued>>]
                 /\ aborted' = aborted
  /\ UNCHANGED <<controllers, lastOp, ghost, res, reqTimeoutId>>

\* reader.read() resolves with no value (end of the body): the idle timer is
\* cleared, the loop breaks and finish() runs.
EndOfStream(s) ==
  /\ pc[s] = "read"
  /\ resTimeoutId' = [resTimeoutId EXCEPT ![s] = FALSE]
  /\ pc' = [pc EXCEPT ![s] = "done"]
  /\ trace' = [trace EXCEPT ![s] = @ \o <<Event("end")>> \o finish(responseText[s])]
  /\ aborted' = AbortSignals({s})
  /\ UNCHANGED <<controllers, lastOp, ghost, res, reqTimeoutId, responseText,
                 decoder, received>>

\* reader.read() is rejected by a network failure: the catch block runs and
\* clearTimeout(resTimeoutId) is skipped.
ReadRejects(s) ==
  /\ pc[s] = "read"
  /\ pc' = [pc EXCEPT ![s] = "done"]
  /\ trace' = [trace EXCEPT ![s] = @ \o <<Event("readError")>> \o catch("NetworkError")]
  /\ UNCHANGED <<poolVars, res, reqTimeoutId, resTimeoutId, responseText,
                 decoder, received>>

\* A slip: the loop arms no timer
IdleTimeoutNever(s) == FALSE /\ UNCHANGED vars

\* setTimeout(finish, TIME_OUT_MS) fires: onMessage(responseText, true), then
\* controller.abort(), which rejects the read if one is pending.
IdleTimeout(s) ==
  /\ resTimeoutId[s]
  /\ resTimeoutId' = [resTimeoutId EXCEPT ![s] = FALSE]
  /\ aborted' = AbortSignals({s})
  /\ pc' = [pc EXCEPT ![s] = IF Rejects(s, {s}) THEN "done" ELSE @]
  /\ trace' = [trace EXCEPT ![s] =
                 @ \o <<Event(IF pc[s] = "read" THEN "idleTimeout" ELSE "lateTimeout")>>
                   \o finish(responseText[s])
                   \o (IF Rejects(s, {s}) THEN catch("AbortError") ELSE <<>>)]
  /\ UNCHANGED <<controllers, lastOp, ghost, res, reqTimeoutId, responseText,
                 decoder, received>>

\* The caller aborts the controller it received through onController.
Cancel(s) ==
  /\ \E i \in 1..Len(trace[s]) : trace[s][i] = onController
  /\ ~aborted[s]
  /\ CallerAborts({s})
  /\ UNCHANGED <<controllers, lastOp, ghost>>

(***************************************************************************)
(* Cancellation registry: ControllerPool.                                  *)
(***************************************************************************)
NoControllers == [k \in {} |-> NoHandle]

\* A slip: an entry the key already has is kept
addControllerOnce(ctrls, k, controller) ==
  IF k \in DOMAIN ctrls THEN ctrls
  ELSE [x \in DOMAIN ctrls \cup {k} |-> IF x = k THEN controller ELSE ctrls[x]]

\* this.controllers[key] = controller
addController(ctrls, k, controller) ==
  [x \in DOMAIN ctrls \cup {k} |-> IF x = k THEN controller ELSE ctrls[x]]

\* A slip: without a controller for the key, every controller is aborted
stopOrAll(ctrls, k) == IF k \in DOMAIN ctrls THEN {ctrls[k]} ELSE Range(ctrls)

\* const controller = this.controllers[key]; controller?.abort();
\* the controllers abort() is called on
stop(ctrls, k) == IF k \in DOMAIN ctrls THEN {ctrls[k]} ELSE {}

\* A slip: only one of the values is aborted
stopAllOne(ctrls) ==
  IF DOMAIN ctrls = {} THEN {} ELSE {ctrls[CHOOSE k \in DOMAIN ctrls : TRUE]}

\* Object.values(this.controllers).forEach((v) => v.abort());
stopAll(ctrls) == Range(ctrls)

\* A slip: length > 1
hasPendingSeveral(ctrls) == Cardinality(DOMAIN ctrls) > 1

\* Object.values(this.controllers).length > 0
hasPending(ctrls) == Cardinality(DOMAIN ctrls) > 0

\* A slip: the entry is not deleted
removeNothing(ctrls, k) == ctrls

\* delete this.controllers[key]
remove(ctrls, k) == [x \in DOMAIN ctrls \ {k} |-> ctrls[x]]

\* lastOp: the call, its arguments (0 where it has none), the controller the
\* key held when addController was called, the controllers abort() was called
\* on, and the result of hasPending
Op(op, c, m, h, had, aborts, pending) ==
  [op |-> op, c |-> c, m |-> m, h |-> h, had |-> had, aborts |-> aborts,
   pending |-> pending]

\* ghost[p], for p = <<sessionIndex, messageId>>: "never" added, "live" (added
\* with controller h and not removed since) or "removed" (h was the controller
\* when remove was called, and the pair was not added since)
Never == [st |-> "never", h |-> NoHandle]

AddController(c, m, h) ==
  /\ controllers' = addController(controllers, key(c, m), h)
  /\ lastOp' = Op("addController", c, m, h,
                  IF key(c, m) \in DOMAIN controllers THEN controllers[key(c, m)]
                  ELSE NoHandle, {}, FALSE)
  /\ ghost' = [ghost EXCEPT ![<<c, m>>] = [st |-> "live", h |-> h]]
  /\ UNCHANGED <<aborted, streamVars>>

\* A slip: stop deletes the entry after the abort
StopDeletes(c, m) ==
  /\ lastOp' = Op("stop", c, m, NoHandle, NoHandle, stop(controllers, key(c, m)), FALSE)
  /\ CallerAborts(stop(controllers, key(c, m)))
  /\ controllers' = remove(controllers, key(c, m))
  /\ UNCHANGED ghost

Stop(c, m) ==
  /\ lastOp' = Op("stop", c, m, NoHandle, NoHandle, stop(controllers, key(c, m)), FALSE)
  /\ CallerAborts(stop(controllers, key(c, m)))
  /\ UNCHANGED <<controllers, ghost>>

StopAll ==
  /\ lastOp' = Op("stopAll", 0, 0, NoHandle, NoHandle, stopAll(controllers), FALSE)
  /\ CallerAborts(stopAll(controllers))
  /\ UNCHANGED <<controllers, ghost>>

HasPending ==
  /\ lastOp' = Op("hasPending", 0, 0, NoHandle, NoHandle, {}, hasPending(controllers))
  /\ UNCHANGED <<controllers, aborted, ghost, streamVars>>

Remove(c, m) ==
  /\ controllers' = remove(controllers, key(c, m))
  /\ lastOp' = Op("remove", c, m, NoHandle, NoHandle, {}, FALSE)
  /\ ghost' = [ghost EXCEPT ![<<c, m>>] =
                 IF @.st = "live" THEN [st |-> "removed", h |-> @.h]
                 ELSE @]
  /\ UNCHANGED <<aborted, streamVars>>

(***************************************************************************)
(* Request assembler: makeRequestParam.  The repository holds three        *)
(* variants of it: part_000 (the same text as part_003), part_001 and      *)
(* part_002.  A text is a sequence of tokens; an optional value is the     *)
(* empty set (undefined) or the set of the one value.                      *)
(***************************************************************************)
MaxMessages == 2       \* messages in one call of makeRequestParam

Files == {"part_000", "part_001", "part_002"}
Undefined == {}
Some(v) == {v}
Get(o) == CHOOSE v \in o : TRUE

\* The truth value of an optional string: undefined and "" are false
TruthyText(o) == o # Undefined /\ Get(o) # <<>>

\* A slip: if (options?.overrideTemperature)
ProvidedTruthy(o) == o # Undefined /\ o # Some(0)

\* options?.overrideTemperature != null
Provided(o) == o # Undefined

\* The truth value of an optional model name (if (options?.overrideModel))
TruthyName(o) == o # Undefined /\ Get(o) # ""

Prefix == "INCREMENTAL_SUMMARY_PREFIX"

\* A slip: the prefix is left out
TemplateBare(o) == IF o = Undefined THEN <<"undefined">> ELSE Get(o)

\* `${INCREMENTAL_SUMMARY_PREFIX} ${text}`; undefined is written "undefined"
Template(o) == <<Prefix, " ">> \o (IF o = Undefined THEN <<"undefined">> ELSE Get(o))

Message(id, role, content, summary, useSummary, hidden) ==
  [id |-> id, role |-> role, content |-> content, summary |-> summary,
   useSummary |-> useSummary, nSummaryTokens |-> Undefined, hidden |-> hidden,
   nTokens |-> Undefined]

Sent(role, content) == [role |-> role, content |-> content]

\* part_002: the message that explains the prefix; part_001: the persona
summaryIntro == Message(0, "system", <<"SummaryIntro">>, Undefined, FALSE, FALSE)
Persona == Sent("system", <<"Persona">>)

\* part_002: (message.summary && (!checkFlag || message.useSummary)) || false
isMessageInSummaryMode(message, checkFlag) ==
  TruthyText(message.summary) /\ (~checkFlag \/ message.useSummary)

\* part_002: [{role, content: (inSummaryMode ? summary : content) || ""}, inSummaryMode]
getMessageOrSummary(message, checkFlag) ==
  LET inSummaryMode == isMessageInSummaryMode(message, checkFlag)
  IN  [message |-> Sent(message.role,
                        IF inSummaryMode THEN Get(message.summary) ELSE message.content),
       inSummaryMode |-> inSummaryMode]

\* part_000 lines 27-34 (part_003 lines 36-43)
sendMessages000(messages, level) ==
  [i \in 1..Len(messages) |->
     Sent(messages[i].role,
          IF level = "Incremental" /\ TruthyText(messages[i].summary)
          THEN Template(messages[i].summary) ELSE messages[i].content)]

\* part_001 lines 37-52
sendMessages001(messages) ==
  <<Persona>> \o
  [i \in 1..Len(messages) |->
     Sent(messages[i].role,
          IF messages[i].useSummary
          THEN Template(messages[i].summary) ELSE messages[i].content)]

\* part_002 lines 29-43; getMessageOrSummary is called without checkFlag
sendMessages002(messages) ==
  LET all == <<summaryIntro>> \o messages
  IN  [i \in 1..Len(all) |->
         LET r == getMessageOrSummary(all[i], FALSE)
         IN  Sent(r.message.role,
                  IF r.inSummaryMode THEN Template(Some(r.message.content))
                  ELSE r.message.content)]

sendMessages(file, messages, level) ==
  IF file = "part_000" THEN sendMessages000(messages, level)
  ELSE IF file = "part_001" THEN sendMessages001(messages)
  ELSE sendMessages002(messages)

\* The messages of the request that stand for the messages of the call: the
\* variants of part_001 and part_002 put one message in front of them
Preamble(file) == IF file = "part_000" THEN 0 ELSE 1

\* useAppConfig.getState().modelConfig
appModelConfig ==
  [model |-> "gpt-3.5-turbo", temperature |-> 5, presence_penalty |-> 1]

\* A slip: the two spreads in the other order
SpreadReversed(a, b) ==
  [k \in DOMAIN a \cup DOMAIN b |-> IF k \in DOMAIN a THEN a[k] ELSE b[k]]

\* { ...a, ...b }
Spread(a, b) ==
  [k \in DOMAIN a \cup DOMAIN b |-> IF k \in DOMAIN b THEN b[k] ELSE a[k]]

NoOptions ==
  [stream |-> Undefined, overrideModel |-> Undefined,
   overrideTemperature |-> Undefined, overridePresencePenalty |-> Undefined]

\* lines 45-67 of the three variants
makeRequestParam(file, messages, options, sess) ==
  LET modelConfig == Spread(appModelConfig, sess.modelConfig)
  IN  [messages |-> sendMessages(file, messages, sess.summaryLevel),
       stream |-> options.stream,
       model |-> IF TruthyName(options.overrideModel)
                 THEN Get(options.overrideModel) ELSE modelConfig.model,
       temperature |-> IF Provided(options.overrideTemperature)
                       THEN Get(options.overrideTemperature)
                       ELSE modelConfig.temperature,
       presence_penalty |-> IF Provided(options.overridePresencePenalty)
                            THEN Get(options.overridePresencePenalty)
                            ELSE modelConfig.presence_penalty]

\* The inputs of makeRequestParam the model draws from
Texts == {<<"c">>}
Summaries == {Undefined, Some(<<>>), Some(<<"s">>)}
InputMessages ==
  {Message(1, "user", c, sm, f, FALSE) : c \in Texts, sm \in Summaries, f \in BOOLEAN}
OptionsSet ==
  [stream : {Undefined, Some(TRUE)},
   overrideModel : {Undefined, Some("gpt-4")},
   overrideTemperature : {Undefined, Some(0)},
   overridePresencePenalty : {Undefined, Some(0)}]
MaskModelConfig == [model |-> "gpt-4-32k", temperature |-> 7, presence_penalty |-> 2]
ModelConfigs ==
  {[k \in K |-> MaskModelConfig[k]] :
     K \in {{}, {"model"}, {"temperature", "presence_penalty"}, DOMAIN MaskModelConfig}}
SummaryLevels == {"None", "Incremental"}

NoRequest == [file |-> "none"]
NoSummary == [kind |-> "none"]

Session(level, threshold, modelConfig, messages) ==
  [summaryLevel |-> level, compressMessageLengthThreshold |-> threshold,
   modelConfig |-> modelConfig, messages |-> messages]

DefaultSession == Session("Incremental", 2, MaskModelConfig, <<>>)

\* One call of makeRequestParam, recorded with its arguments
MakeRequestParam(file, messages, options) ==
  /\ req = NoRequest
  /\ req' = [file |-> file, messages |-> messages, options |-> options,
             out |-> makeRequestParam(file, messages, options, session)]
  /\ UNCHANGED <<poolVars, streamVars, session, inflight, lastSum, handled>>

(***************************************************************************)
(* Context compression: summarizeMessageIncrementally (part_002) and       *)
(* summarizeMessage over summarizeMessageIncrementally (part_001), both    *)
(* through requestChat.  part_000 and part_003 have no such function.      *)
(***************************************************************************)
MaxInflight == 2       \* summarization sub-requests awaiting their response

SummaryFiles == {"part_001", "part_002"}

\* The conversation of the summarization runs: a hidden message shorter than
\* the threshold and one at the threshold, neither summarized yet; and a
\* message that is not in the conversation
ShortMessage == Message(1, "user", <<"c">>, Undefined, FALSE, TRUE)
LongMessage == Message(2, "user", <<"c", "c">>, Undefined, FALSE, FALSE)
ForeignMessage == Message(3, "user", <<"c", "c">>, Undefined, FALSE, FALSE)
Conversation == <<ShortMessage, LongMessage>>
Targets == {ShortMessage.id, LongMessage.id, ForeignMessage.id}

\* session.messages.indexOf(message), counted from 1; 0 stands for -1.  The
\* message a caller holds is the object of the conversation with its id.
indexOf(messages, id) ==
  IF \E i \in 1..Len(messages) : messages[i].id = id
  THEN CHOOSE i \in 1..Len(messages) :
         /\ messages[i].id = id
         /\ \A j \in 1..(i - 1) : messages[j].id # id
  ELSE 0

\* The message object the caller passes
Argument(messages, id) ==
  IF indexOf(messages, id) = 0 THEN ForeignMessage ELSE messages[indexOf(messages, id)]

\* { role: "system", content: Locale.Store.Prompt.SummarizeIncremental }
SummarizeIncremental ==
  Message(0, "system", <<"SummarizeIncremental">>, Undefined, FALSE, FALSE)

\* part_002 lines 364-375: the prompt, then the messages up to the target,
\* each as getMessageOrSummary gives it (role, content and date only).  The
\* mask has no context messages.
included002(messages, i) == [k \in 1..i |-> k]
subMessages002(messages, i) ==
  <<SummarizeIncremental>> \o
  [n \in 1..Len(included002(messages, i)) |->
     LET m == getMessageOrSummary(messages[included002(messages, i)[n]], FALSE).message
     IN  Message(0, m.role, m.content, Undefined, FALSE, FALSE)]

\* part_001 lines 348-357: the earlier messages that are not hidden, the
\* prompt, the target
included001(messages, i) ==
  LET Shown(k) == ~messages[k].hidden
  IN  SelectSeq([k \in 1..(i - 1) |-> k], Shown) \o <<i>>
subMessages001(messages, i) ==
  LET earlier == SubSeq(included001(messages, i), 1, Len(included001(messages, i)) - 1)
  IN  [n \in 1..Len(earlier) |-> messages[earlier[n]]]
        \o <<SummarizeIncremental, messages[i]>>

\* The places in the conversation of the messages of the sub-request
included(file, messages, i) ==
  IF file = "part_001" THEN included001(messages, i)
  ELSE included002(messages, i)

subMessages(file, messages, i) ==
  IF file = "part_001" THEN subMessages001(messages, i)
  ELSE subMessages002(messages, i)

\* { model: "gpt-4", temperature: 0.7, presencePenalty: 0 }, as requestChat
\* hands them to makeRequestParam; temperatures are in tenths
SummaryOptions ==
  [stream |-> Some(FALSE), overrideModel |-> Some("gpt-4"),
   overrideTemperature |-> Some(7), overridePresencePenalty |-> Some(0)]

\* part_002 lines 345-362: the three early returns.  part_001 lines 332-346:
\* the first two are commented out.
issues(file, message, sess) ==
  /\ file = "part_002" => sess.summaryLevel = "Incremental"
  /\ file = "part_002" =>
       ~(Len(message.content) < sess.compressMessageLengthThreshold)
  /\ indexOf(sess.messages, message.id) # 0

\* What requestChat gives: the fetch is rejected ("rejects"); res.json()
\* throws and requestChat returns undefined ("unparsable"); or a parsed body
\* ("json") with choices?.at(0)?.message?.content and
\* usage?.completion_tokens, each of which may be missing.  The responses
\* with a summary differ in their text or in their tokens.
ChatResponse(kind, content, tokens) ==
  [kind |-> kind, content |-> content, completion_tokens |-> tokens]
ChatResponses ==
  {ChatResponse("rejects", Undefined, Undefined),
   ChatResponse("unparsable", Undefined, Undefined)}
  \cup {ChatResponse("json", c, t) :
          c \in {Undefined, Some(<<>>)}, t \in {Undefined, Some(3)}}
  \cup {ChatResponse("json", Some(<<"s">>), Some(3)),
        ChatResponse("json", Some(<<"t">>), Some(4)),
        ChatResponse("json", Some(<<"t">>), Undefined)}

\* A slip: res.json() is awaited outside the try block
ThrowsUnparsed(response) == response.kind \in {"rejects", "unparsable"}

\* requestChat lines 119-124: the await of the fetch is outside the try block,
\* so its rejection rejects the promise of requestChat; an exception of
\* res.json() is caught and logged, and requestChat returns undefined
Throws(response) == response.kind = "rejects"

\* The body requestChat returns, if any
Returned(response) ==
  IF response.kind = "json" THEN response
  ELSE ChatResponse(response.kind, Undefined, Undefined)

\* A slip: if (summary !== undefined)
StoresDefined(response) ==
  ~Throws(response) /\ Returned(response).content # Undefined

\* The then callback runs unless the promise was rejected, and
\* part_002 line 383: if (summary); part_001 line 378: if (!summary) return
Stores(response) ==
  ~Throws(response) /\ TruthyText(Returned(response).content)

\* A slip: nSummaryTokens is assigned only if the response has a usage
summarizedKeepTokens(message, response) ==
  [message EXCEPT !.summary = response.content, !.useSummary = TRUE,
                  !.nSummaryTokens = IF response.completion_tokens = Undefined
                                     THEN @ ELSE response.completion_tokens]

\* A slip: nSummaryTokens is not assigned
summarizedNoTokens(message, response) ==
  [message EXCEPT !.summary = response.content, !.useSummary = TRUE]

\* part_002 lines 384-386, part_001 lines 383-385
summarized(message, response) ==
  [message EXCEPT !.summary = response.content, !.useSummary = TRUE,
                  !.nSummaryTokens = response.completion_tokens]

\* The call: summarizeMessageIncrementally(message, session) of part_002,
\* summarizeMessage(messageForSummary, session) of part_001, up to the
\* request.  req records the call and, if one was issued, the request.
SummarizeMessage(file, id) ==
  LET message == Argument(session.messages, id)
      i == indexOf(session.messages, id)
  IN  /\ Len(inflight) < MaxInflight
      /\ IF issues(file, message, session)
         THEN /\ inflight' = Append(inflight, [caller |-> "summarizeMessage",
                                                file |-> file, messageId |-> id])
              /\ req' = [file |-> file, target |-> id, issued |-> TRUE,
                         included |-> included(file, session.messages, i),
                         sub |-> subMessages(file, session.messages, i),
                         out |-> makeRequestParam(file,
                                   subMessages(file, session.messages, i),
                                   SummaryOptions, session)]
         ELSE /\ inflight' = inflight
              /\ req' = [file |-> file, target |-> id, issued |-> FALSE]
      /\ UNCHANGED <<poolVars, streamVars, session, lastSum, handled>>

\* The k-th sub-request in flight is settled with `response`: the then
\* callback of part_002 lines 381-391 changes the message it was called with;
\* that of part_001 lines 377-387 the first message with the id.
SummaryResponse(k, response) ==
  LET e == inflight[k]
      i == indexOf(session.messages, e.messageId)
      before == session.messages[i]
      after == IF Stores(response) THEN summarized(before, response) ELSE before
  IN  /\ k \in 1..Len(inflight)
      /\ e.caller = "summarizeMessage"
      /\ i # 0
      /\ session' = [session EXCEPT !.messages[i] = after]
      /\ inflight' = SubSeq(inflight, 1, k - 1) \o SubSeq(inflight, k + 1, Len(inflight))
      /\ lastSum' = [kind |-> response.kind, caller |-> e.caller, file |-> e.file,
                     target |-> e.messageId, response |-> response,
                     threw |-> Throws(response), before |-> before, after |-> after]
      /\ UNCHANGED <<poolVars, streamVars, req, handled>>

\* shuffleWords: the words of the text in any order
shuffleWords(input) ==
  {[n \in 1..Len(input) |-> input[f[n]]] :
     f \in {g \in [1..Len(input) -> 1..Len(input)] :
              \A a, b \in 1..Len(input) : g[a] = g[b] => a = b}}

\* { model: "gpt-3.5-turbo", temperature: 0.2, presencePenalty: 0 }
TokenOptions ==
  [stream |-> Some(FALSE), overrideModel |-> Some("gpt-3.5-turbo"),
   overrideTemperature |-> Some(2), overridePresencePenalty |-> Some(0)]

\* usage?.prompt_tokens of a response
PromptTokens == {Undefined, Some(0), Some(5)}

\* The truth value of an optional number: undefined and 0 are false
TruthyNumber(o) == o # Undefined /\ Get(o) # 0

\* annotateTokenCount(message) of part_002 up to the request (lines 290-306)
AnnotateTokenCount(id, shuffledText) ==
  LET message == Argument(session.messages, id)
  IN  /\ Len(inflight) < MaxInflight
      /\ message.content # <<>>
      /\ shuffledText \in shuffleWords(message.content)
      /\ inflight' = Append(inflight, [caller |-> "annotateTokenCount",
                                       file |-> "part_002", messageId |-> id])
      /\ req' = [file |-> "part_002", target |-> id, issued |-> TRUE,
                 out |-> makeRequestParam("part_002",
                           <<Message(0, "user", shuffledText \o <<"\nNevermind">>,
                                     Undefined, FALSE, FALSE)>>,
                           TokenOptions, session)]
      /\ UNCHANGED <<poolVars, streamVars, session, lastSum, handled>>

\* The then callback of annotateTokenCount (lines 307-314)
TokenResponse(k, response, promptTokens) ==
  LET e == inflight[k]
      i == indexOf(session.messages, e.messageId)
      before == session.messages[i]
      nTokens == IF Returned(response).kind = "json" THEN promptTokens ELSE Undefined
      after == IF ~Throws(response) /\ TruthyNumber(nTokens)
               THEN [before EXCEPT !.nTokens = nTokens] ELSE before
  IN  /\ k \in 1..Len(inflight)
      /\ e.caller = "annotateTokenCount"
      /\ i # 0
      /\ session' = [session EXCEPT !.messages[i] = after]
      /\ inflight' = SubSeq(inflight, 1, k - 1) \o SubSeq(inflight, k + 1, Len(inflight))
      /\ lastSum' = [kind |-> response.kind, caller |-> e.caller, file |-> e.file,
                     target |-> e.messageId, response |-> response,
                     threw |-> Throws(response), before |-> before, after |-> after]
      /\ UNCHANGED <<poolVars, streamVars, req, handled>>

\* requestWithPrompt(messages, prompt, options) of part_002 up to the request
\* (lines 274-282), on the messages of the conversation and with no options
RequestWithPrompt ==
  /\ Len(inflight) < MaxInflight
  /\ inflight' = Append(inflight, [caller |-> "requestWithPrompt",
                                   file |-> "part_002", messageId |-> 0])
  /\ req' = [file |-> "part_002", target |-> 0, issued |-> TRUE,
             out |-> makeRequestParam("part_002",
                       session.messages \o
                         <<Message(0, "user", <<"prompt">>, Undefined, FALSE, FALSE)>>,
                       NoOptions, session)]
  /\ UNCHANGED <<poolVars, streamVars, session, lastSum, handled>>

\* res?.choices?.at(0)?.message?.content ?? "" (line 284)
PromptResponse(k, response) ==
  LET e == inflight[k]
      content == Returned(response).content
  IN  /\ k \in 1..Len(inflight)
      /\ e.caller = "requestWithPrompt"
      /\ inflight' = SubSeq(inflight, 1, k - 1) \o SubSeq(inflight, k + 1, Len(inflight))
      /\ lastSum' = [kind |-> response.kind, caller |-> e.caller, file |-> e.file,
                     target |-> e.messageId, response |-> response,
                     threw |-> Throws(response),
                     before |-> session.messages, after |-> session.messages,
                     returned |-> IF Throws(response) THEN Undefined
                                  ELSE IF content = Undefined THEN Some(<<>>)
                                  ELSE content]
      /\ UNCHANGED <<poolVars, streamVars, session, req, handled>>

(***************************************************************************)
(* The caller of requestChatStream.  Its callbacks keep the registry: the  *)
(* handle it is given by onController is registered under the key of the   *)
(* stream, and the entry of that key is removed when the stream completes  *)
(* or reports an error.  A callback runs inside the step of the transport  *)
(* that calls it, so the reactions come before any other step.             *)
(***************************************************************************)
Caller(pair) == [n |-> 0, pair |-> pair]

\* The callbacks of stream s its caller has not reacted to yet
Unhandled(s) ==
  LET IsCall(e) == e.ev \in {"onController", "onMessage", "onError"}
  IN  SubSeq(SelectSeq(trace[s], IsCall), handled[s].n + 1,
             Len(SelectSeq(trace[s], IsCall)))

Quiet == \A s \in Streams : Unhandled(s) = <<>>

React(s) ==
  /\ Unhandled(s) # <<>>
  /\ handled' = [handled EXCEPT ![s].n = @ + 1]
  /\ LET e == Head(Unhandled(s))
         c == handled[s].pair[1]
         m == handled[s].pair[2]
     IN  IF e.ev = "onController" THEN AddController(c, m, s)
         ELSE IF e.ev = "onError" \/ e.done THEN Remove(c, m)
         ELSE UNCHANGED <<poolVars, streamVars>>
  /\ UNCHANGED compressionVars

(***************************************************************************)
(* Specifications.                                                         *)
(***************************************************************************)
\* An empty registry; no pair of `pairs` was ever added
InitRegistry(pairs) ==
  /\ controllers = NoControllers
  /\ aborted = [h \in Handles |-> FALSE]
  /\ lastOp = Op("none", 0, 0, NoHandle, NoHandle, {}, FALSE)
  /\ ghost = [p \in pairs |-> Never]

\* No stream was started
InitStreams ==
  /\ pc = [s \in Streams |-> "idle"]
  /\ res = [s \in Streams |-> NoStatus]
  /\ reqTimeoutId = [s \in Streams |-> FALSE]
  /\ resTimeoutId = [s \in Streams |-> FALSE]
  /\ responseText = [s \in Streams |-> <<>>]
  /\ decoder = [s \in Streams |-> <<>>]
  /\ received = [s \in Streams |-> <<>>]
  /\ trace = [s \in Streams |-> <<>>]

InitTransport == InitRegistry(Pairs) /\ InitStreams

\* The callers have seen no callback
InitCaller == handled = [s \in Streams |-> Caller(<<1, 1>>)]

\* No summarization in progress and no request assembled
InitCompression ==
  /\ req = NoRequest
  /\ inflight = <<>>
  /\ lastSum = NoSummary

Init ==
  /\ InitTransport
  /\ InitCaller
  /\ InitCompression
  /\ session = DefaultSession

\* The registry under every sequence of calls, with controllers of no stream.
PoolCall ==
  \/ \E c \in SessionIndexes, m \in MessageIds, h \in Handles : AddController(c, m, h)
  \/ \E c \in SessionIndexes, m \in MessageIds : Stop(c, m)
  \/ StopAll
  \/ HasPending
  \/ \E c \in SessionIndexes, m \in MessageIds : Remove(c, m)

NextPool == PoolCall /\ UNCHANGED <<compressionVars, handled>>

SpecPool == Init /\ [][NextPool]_vars

\* The registry under calls on pairs of numbers whose decimal forms share
\* their digits, with one controller.
KeyPairs ==
  {<<1, 11>>, <<11, 1>>, <<1, 1>>, <<111, 1>>, <<1, 111>>, <<-1, 1>>, <<1, -1>>}

InitKey ==
  /\ InitRegistry(KeyPairs)
  /\ InitStreams
  /\ InitCaller
  /\ InitCompression
  /\ session = DefaultSession

NextKey ==
  /\ \/ \E p \in KeyPairs : AddController(p[1], p[2], 1)
     \/ \E p \in KeyPairs : Stop(p[1], p[2])
     \/ \E p \in KeyPairs : Remove(p[1], p[2])
  /\ UNCHANGED <<compressionVars, handled>>

SpecKey == InitKey /\ [][NextKey]_vars

\* One call of requestChatStream under every interleaving of the network, the
\* two timers and the caller's cancellation.
SoloStreams == {1}

StreamStep(s) ==
    \/ Call(s)
    \/ CallThrows(s)
    \/ FetchRejects(s)
    \/ ReqTimeout(s)
    \/ \E status \in Statuses : ResponseNotOk(s, status)
    \/ \E status \in Statuses : ResponseOk(s, status)
    \/ \E status \in Statuses : ResponseNoBody(s, status)
    \/ \E value \in ChunkValues, done \in BOOLEAN : Chunk(s, value, done)
    \/ EndOfStream(s)
    \/ ReadRejects(s)
    \/ IdleTimeout(s)
    \/ Cancel(s)

NextStream ==
  \E s \in SoloStreams : StreamStep(s) /\ UNCHANGED <<compressionVars, handled>>

SpecStream == Init /\ [][NextStream]_vars

\* The same, with timers that fire: a timer that stays armed is not kept
\* waiting for ever.  Nothing is assumed of the network or of the caller.
TimersFire ==
  \A s \in SoloStreams :
    /\ WF_vars(ReqTimeout(s) /\ UNCHANGED <<compressionVars, handled>>)
    /\ WF_vars(IdleTimeout(s) /\ UNCHANGED <<compressionVars, handled>>)

SpecStreamLive == Init /\ [][NextStream]_vars /\ TimersFire

\* Two streams and their callers, with stop and stopAll called at any time.
\* The second stream runs under the key of the first or under another one.
\* Every chunk is the same byte.
SessionPairs == {<<1, 1>>, <<1, 11>>}
SessionChunk == <<"a">>

InitSession ==
  /\ InitTransport
  /\ InitCompression
  /\ session = DefaultSession
  /\ \E pair \in SessionPairs :
       handled = [s \in Streams |-> Caller(IF s = 1 THEN <<1, 1>> ELSE pair)]

SessionStep(s) ==
    \/ Call(s)
    \/ CallThrows(s)
    \/ FetchRejects(s)
    \/ ReqTimeout(s)
    \/ ResponseNotOk(s, 401)
    \/ ResponseOk(s, 200)
    \/ ResponseNoBody(s, NoContent)
    \/ \E done \in BOOLEAN : Chunk(s, SessionChunk, done)
    \/ EndOfStream(s)
    \/ ReadRejects(s)
    \/ IdleTimeout(s)
    \/ Cancel(s)

NextSession ==
  \/ \E s \in Streams : React(s)
  \/ /\ Quiet
     /\ \E s \in Streams : SessionStep(s)
     /\ UNCHANGED <<compressionVars, handled>>
  \/ /\ Quiet
     /\ \/ \E pair \in SessionPairs : Stop(pair[1], pair[2])
        \/ StopAll
     /\ UNCHANGED <<compressionVars, handled>>

SpecSession == InitSession /\ [][NextSession]_vars

\* One stream whose caller registers the controller and leaves it in the
\* registry, with stop and stopAll called at any time, also after the end of
\* the stream.
Keep(s) ==
  /\ \E i \in 1..Len(trace[s]) : trace[s][i] = onController
  /\ key(1, 1) \notin DOMAIN controllers
  /\ AddController(1, 1, s)

NextLinger ==
  /\ \/ \E s \in SoloStreams : SessionStep(s)
     \/ \E s \in SoloStreams : Keep(s)
     \/ Stop(1, 1)
     \/ StopAll
  /\ UNCHANGED <<compressionVars, handled>>

SpecLinger == Init /\ [][NextLinger]_vars

\* One call of makeRequestParam of any of the three variants, on every list
\* of messages and every combination of options, in every session.
InitAssemble ==
  /\ InitTransport
  /\ InitCaller
  /\ InitCompression
  /\ \E level \in SummaryLevels, modelConfig \in ModelConfigs :
       session = Session(level, 2, modelConfig, <<>>)

MessageLists == SeqsUpTo(InputMessages, MaxMessages)

NextAssemble ==
  /\ req = NoRequest
  /\ \E file \in Files, messages \in MessageLists, options \in OptionsSet :
       MakeRequestParam(file, messages, options)

SpecAssemble == InitAssemble /\ [][NextAssemble]_vars

\* Summarization calls of both variants on the messages of one conversation,
\* with the responses arriving in any order.
InitSummary ==
  /\ InitTransport
  /\ InitCaller
  /\ InitCompression
  /\ \E level \in SummaryLevels :
       session = Session(level, 2, MaskModelConfig, Conversation)

NextSummary ==
  \/ \E file \in SummaryFiles, id \in Targets : SummarizeMessage(file, id)
  \/ \E k \in 1..MaxInflight, response \in ChatResponses : SummaryResponse(k, response)

SpecSummary == InitSummary /\ [][NextSummary]_vars

\* The three callers of requestChat of part_002, one request at a time.
NextChat ==
  \/ /\ inflight = <<>>
     /\ \/ \E id \in Targets : SummarizeMessage("part_002", id)
        \/ \E id \in Targets :
             \E shuffledText \in shuffleWords(Argument(session.messages, id).content) :
               AnnotateTokenCount(id, shuffledText)
        \/ RequestWithPrompt
  \/ \E response \in ChatResponses : SummaryResponse(1, response)
  \/ \E response \in ChatResponses, promptTokens \in PromptTokens :
       TokenResponse(1, response, promptTokens)
  \/ \E response \in ChatResponses : PromptResponse(1, response)

SpecChat == InitSummary /\ [][NextChat]_vars

(***************************************************************************)
(* Properties of the streaming transport, checked under SpecStream.        *)
(***************************************************************************)
IsCallback(e) == e.ev \in {"onController", "onMessage", "onError"}
IsMessage(e) == e.ev = "onMessage"
IsTerminal(e) == e.ev = "onError" \/ (e.ev = "onMessage" /\ e.done)
IsDone(e) == e.ev = "onMessage" /\ e.done
IsDisturbance(e) ==
  e.ev \in {"idleTimeout", "lateTimeout", "reqTimeout", "cancel", "readError",
            "fetchError", "assemblyError"}

Callbacks(s) == SelectSeq(trace[s], IsCallback)
Messages(s) == SelectSeq(trace[s], IsMessage)
Terminals(s) == SelectSeq(trace[s], IsTerminal)
Undisturbed(s) == SelectSeq(trace[s], IsDisturbance) = <<>>

RECURSIVE Concat(_)
Concat(chunks) == IF chunks = <<>> THEN <<>> ELSE Head(chunks) \o Concat(Tail(chunks))

\* The text of the first k chunks, decoded in one piece
TextOf(chunks, k) == decode(<<>>, Concat(SubSeq(chunks, 1, k))).text

\* C1: once the response headers have arrived, exactly one terminal callback
\* (onMessage with done = true, or onError) is invoked per call: never two,
\* and one when the call has come to rest.
C1_ExactlyOneTerminal ==
  \A s \in Streams :
    res[s] # NoStatus =>
      /\ Len(Terminals(s)) <= 1
      /\ (pc[s] = "done" /\ ~resTimeoutId[s] => Len(Terminals(s)) = 1)

\* C2: no onMessage(text, false) follows an onMessage(text, true), and the
\* length of the text never decreases from one onMessage call to the next.
C2_MessagesOrdered ==
  \A s \in Streams :
    LET m == Messages(s)
    IN  \A i \in 1..Len(m), j \in 1..Len(m) :
          i < j => /\ ~(m[i].done /\ ~m[j].done)
                   /\ Len(m[i].text) <= Len(m[j].text)

C2_Witness ==
  LET m == Messages(1)
  IN  /\ Len(m) >= 3
      /\ m[Len(m)].done
      /\ Len(m[1].text) < Len(m[2].text)

\* C3: a successful response that delivers chunks c1..cn and then ends, with
\* no timer firing, no cancellation and no failure, produces exactly the
\* calls onMessage(c1, false), ..., onMessage(c1+...+cn, false) and then
\* onMessage(c1+...+cn, true) once; onError is not called.  While the
\* response is still being read the calls are the first of these.
C3_ChunksThenDone ==
  \A s \in Streams :
    (res[s] # NoStatus /\ Ok(res[s]) /\ Undisturbed(s)) =>
      LET n == Len(received[s])
          partial == [k \in 1..n |-> onMessage(TextOf(received[s], k), FALSE)]
          whole == Append(partial, onMessage(TextOf(received[s], n), TRUE))
      IN  /\ SelectSeq(Callbacks(s), LAMBDA e : e.ev # "onController")
               = IF pc[s] = "done" THEN whole ELSE partial
          /\ Len(SelectSeq(trace[s], LAMBDA e : e.ev = "onController")) = 1

C3_Witness ==
  /\ pc[1] = "done"
  /\ Undisturbed(1)
  /\ received[1] = << <<"a", "L">>, <<"T">> >>
  /\ Messages(1)[3] = onMessage(<<"a", TwoByteChar>>, TRUE)

\* C4: when the idle timer fires while a read is pending, the next call is
\* onMessage(text, true) with the text of all the chunks received, it is the
\* only onMessage(.., true) of the call, and no read is issued after it.
C4_IdleTimeoutFinishes ==
  \A s \in Streams :
    \A i \in 1..Len(trace[s]) :
      trace[s][i].ev = "idleTimeout" =>
        /\ i < Len(trace[s])
        /\ trace[s][i + 1] = onMessage(TextOf(received[s], Len(received[s])), TRUE)
        /\ Len(SelectSeq(trace[s], IsDone)) = 1
        /\ \A j \in (i + 1)..Len(trace[s]) : trace[s][j].ev # "read"
        /\ pc[s] = "done"

C4_Witness ==
  /\ \E i \in 1..Len(trace[1]) : trace[1][i].ev = "idleTimeout"
  /\ Len(received[1]) >= 1
  /\ responseText[1] # <<>>

\* C5: a response whose status is not a success status produces exactly one
\* callback: onError with the status code, named Unauthorized if and only if
\* the status is 401 and Stream Error otherwise.  Neither onMessage nor
\* onController is called.
C5_NotOkIsOneError ==
  \A s \in Streams :
    (res[s] # NoStatus /\ ~Ok(res[s])) =>
      /\ Callbacks(s) =
           <<onError(IF res[s] = 401 THEN "Unauthorized" ELSE "Stream Error", res[s])>>
      /\ pc[s] = "done"

C5_Witness ==
  /\ res[1] = 401
  /\ Callbacks(1) = <<onError("Unauthorized", 401)>>

\* C6: every exception raised during request assembly, setup, transmission,
\* reading or decoding is reported through onError without a status code and
\* none reaches the caller of requestChatStream.
C6_ErrorsOnlyThroughOnError ==
  \A s \in Streams :
    /\ pc[s] # "threw"
    /\ \A i \in 1..Len(trace[s]) :
         trace[s][i].ev \in {"assemblyError", "fetchError", "readError", "cancel",
                             "reqTimeout"}
           => /\ i < Len(trace[s])
              /\ trace[s][i + 1].ev = "onError"
              /\ trace[s][i + 1].status = NoStatus

(***************************************************************************)
(* Properties of the cancellation registry, checked under SpecPool.        *)
(***************************************************************************)
LivePairs == {p \in Pairs : ghost[p].st = "live"}
LiveHandles == {ghost[p].h : p \in LivePairs}
LastPair == <<lastOp.c, lastOp.m>>

\* C7: after add(c,m,h) and then remove(c,m), stop(c,m) does not call abort()
\* on h, whatever the other entries of the registry are.
C7_StopAfterRemove ==
  lastOp.op = "stop" =>
    (ghost[LastPair].st = "removed" => ghost[LastPair].h \notin lastOp.aborts)

C7_Witness ==
  /\ lastOp.op = "stop"
  /\ ghost[LastPair].st = "removed"
  /\ ~aborted[ghost[LastPair].h]
  /\ ghost[LastPair].h \in LiveHandles

\* C8: stopAll() calls abort() on exactly the controllers registered at that
\* moment (added under some key and neither removed nor replaced since), and
\* each of them is aborted afterwards.
C8_StopAllExactlyRegistered ==
  lastOp.op = "stopAll" =>
    /\ lastOp.aborts = LiveHandles
    /\ \A h \in LiveHandles : aborted[h]

C8_Witness ==
  /\ lastOp.op = "stopAll"
  /\ lastOp.aborts # {}
  /\ \E p \in Pairs : /\ ghost[p].st = "removed"
                      /\ ghost[p].h \notin lastOp.aborts
                      /\ ~aborted[ghost[p].h]

\* C9: hasPending() is true if and only if some key was added and not removed
\* since.
C9_HasPendingIffRegistered ==
  lastOp.op = "hasPending" => (lastOp.pending <=> LivePairs # {})

C9_Witness ==
  /\ lastOp.op = "hasPending"
  /\ ~lastOp.pending
  /\ \E p \in Pairs : ghost[p].st = "removed"

\* C10: the registry has one entry per registered (sessionIndex, messageId)
\* and no other: the entry holds the controller of the latest add, an add on
\* a key that has an entry replaces it without adding one, and stop(c,m) on a
\* registered key calls abort() on that latest controller only.
C10_OneHandlePerKey ==
  /\ Cardinality(DOMAIN controllers) = Cardinality(LivePairs)
  /\ \A p \in LivePairs : /\ key(p[1], p[2]) \in DOMAIN controllers
                          /\ controllers[key(p[1], p[2])] = ghost[p].h
  /\ lastOp.op = "stop" =>
       (ghost[LastPair].st = "live" => lastOp.aborts = {ghost[LastPair].h})

C10_Witness ==
  /\ lastOp.op = "addController"
  /\ lastOp.had \notin {NoHandle, lastOp.h}
  /\ controllers[key(lastOp.c, lastOp.m)] = lastOp.h
  /\ Cardinality(DOMAIN controllers) = 1

(***************************************************************************)
(* Properties of the request assembler, checked under SpecAssemble.        *)
(***************************************************************************)
Assembled == req # NoRequest

\* The content the request has for the i-th message of the call
OutContent(i) == req.out.messages[i + Preamble(req.file)].content

\* C12: a message with useSummary = false is sent with its original content,
\* whatever its summary and the summarization level.
C12_UnflaggedSentVerbatim ==
  Assembled =>
    \A i \in 1..Len(req.messages) :
      ~req.messages[i].useSummary => OutContent(i) = req.messages[i].content

\* C13, as stated: a message with useSummary = true and a non-empty summary
\* is sent as the marker string followed at once by the summary.
C13_MarkerThenSummary ==
  Assembled =>
    \A i \in 1..Len(req.messages) :
      (req.messages[i].useSummary /\ TruthyText(req.messages[i].summary))
        => OutContent(i) = <<Prefix>> \o Get(req.messages[i].summary)

\* C13, amended: in a session whose summarization level is Incremental, a
\* message with useSummary = true and a non-empty summary is sent as the
\* marker string, one space and the summary, not as its original content.
C13_MarkerSpaceSummary ==
  (Assembled /\ session.summaryLevel = "Incremental") =>
    \A i \in 1..Len(req.messages) :
      (req.messages[i].useSummary /\ TruthyText(req.messages[i].summary))
        => /\ OutContent(i) = <<Prefix, " ">> \o Get(req.messages[i].summary)
           /\ OutContent(i) # req.messages[i].content

C13_Witness ==
  /\ Assembled
  /\ session.summaryLevel = "Incremental"
  /\ Len(req.messages) = 2
  /\ req.messages[2].useSummary
  /\ req.messages[2].summary = Some(<<"s">>)
  /\ OutContent(2) = <<Prefix, " ", "s">>

\* C15: a message whose summary is absent or empty is sent with its original
\* content, whatever its useSummary flag.
C15_NoSummaryNoSubstitution ==
  Assembled =>
    \A i \in 1..Len(req.messages) :
      ~TruthyText(req.messages[i].summary) => OutContent(i) = req.messages[i].content

\* The value the two layers of configuration give a field: the one of the
\* conversation if it has one, the global default otherwise
Layered(field) ==
  IF field \in DOMAIN session.modelConfig THEN session.modelConfig[field]
  ELSE appModelConfig[field]

\* C16: for the model, the temperature and the presence penalty, a call-time
\* override wins over the value of the conversation, which wins over the
\* global default.
C16_OverridePrecedence ==
  Assembled =>
    LET Wins(field, override) ==
          IF override # Undefined THEN req.out[field] = Get(override)
          ELSE IF field \in DOMAIN session.modelConfig
               THEN req.out[field] = session.modelConfig[field]
               ELSE req.out[field] = appModelConfig[field]
    IN  /\ Wins("model", req.options.overrideModel)
        /\ Wins("temperature", req.options.overrideTemperature)
        /\ Wins("presence_penalty", req.options.overridePresencePenalty)

C16_Witness ==
  /\ Assembled
  /\ req.options.overrideModel = Some("gpt-4")
  /\ "model" \in DOMAIN session.modelConfig
  /\ req.out.model = "gpt-4"
  /\ "temperature" \notin DOMAIN session.modelConfig
  /\ req.options.overrideTemperature = Undefined
  /\ req.out.temperature = appModelConfig.temperature

\* C17: an override changes the request if and only if it is provided: a
\* field whose override is absent keeps its layered value, and an override of
\* 0 for the temperature or the presence penalty is applied.
C17_OverrideIffProvided ==
  Assembled =>
    /\ (req.out.model # Layered("model")) <=> (req.options.overrideModel # Undefined)
    /\ (req.out.temperature # Layered("temperature"))
         <=> (req.options.overrideTemperature # Undefined)
    /\ (req.out.presence_penalty # Layered("presence_penalty"))
         <=> (req.options.overridePresencePenalty # Undefined)
    /\ req.options.overrideTemperature = Some(0) => req.out.temperature = 0
    /\ req.options.overridePresencePenalty = Some(0) => req.out.presence_penalty = 0

C17_Witness ==
  /\ Assembled
  /\ req.options.overrideTemperature = Some(0)
  /\ req.out.temperature = 0
  /\ req.options.overridePresencePenalty = Undefined
  /\ req.out.presence_penalty = Layered("presence_penalty")

(***************************************************************************)
(* Properties of the context compression, checked under SpecSummary.       *)
(***************************************************************************)
Settled == lastSum # NoSummary
Failed(response) ==
  \/ response.kind \in {"rejects", "unparsable"}
  \/ ~TruthyText(response.content)
SameSummary(a, b) ==
  /\ a.summary = b.summary
  /\ a.useSummary = b.useSummary
  /\ a.nSummaryTokens = b.nSummaryTokens

\* C14: in every state every message with useSummary = true has a summary that
\* is not empty, and a response for a message that was summarized already
\* either changed nothing or stored a summary that is not empty, with the
\* flag still set.
C14_FlaggedHasSummary ==
  /\ \A i \in 1..Len(session.messages) :
       session.messages[i].useSummary => TruthyText(session.messages[i].summary)
  /\ (Settled /\ lastSum.before.useSummary) =>
       \/ lastSum.after = lastSum.before
       \/ lastSum.after.useSummary /\ TruthyText(lastSum.after.summary)

\* A message summarized twice, the second time with another text
C14_Witness ==
  /\ Settled
  /\ lastSum.before.useSummary
  /\ lastSum.before.summary = Some(<<"s">>)
  /\ lastSum.after.summary = Some(<<"t">>)
  /\ session.messages[indexOf(session.messages, lastSum.target)] = lastSum.after

\* C18: a summarization sub-request is issued for a message only if the level
\* of the conversation is Incremental and the content of the message is at
\* least as long as the threshold.
C18_RequestOnlyAboveThreshold ==
  (req.file \in SummaryFiles /\ req.issued) =>
    /\ session.summaryLevel = "Incremental"
    /\ Len(Argument(session.messages, req.target).content)
         >= session.compressMessageLengthThreshold

\* C19: a sub-request that fails, gives an unparsable response or an empty
\* summary leaves the summary, the useSummary flag and nSummaryTokens of its
\* message as they were; a summary that is not empty is stored with the flag
\* set and the completion tokens of the same response.
C19_AllOrNothing ==
  Settled =>
    IF Failed(lastSum.response)
    THEN SameSummary(lastSum.after, lastSum.before)
    ELSE /\ lastSum.after.summary = lastSum.response.content
         /\ lastSum.after.useSummary
         /\ lastSum.after.nSummaryTokens = lastSum.response.completion_tokens

\* A summarized message whose next sub-request failed, after one that stored
\* the summary and the tokens of one response
C19_Witness ==
  /\ Settled
  /\ lastSum.response.kind = "unparsable"
  /\ lastSum.before.summary = Some(<<"s">>)
  /\ lastSum.before.nSummaryTokens = Some(3)
  /\ session.messages[indexOf(session.messages, lastSum.target)] = lastSum.before

(***************************************************************************)
(* The registry on keys it does not hold, checked under SpecPool.          *)
(***************************************************************************)
\* C20: stop and remove on a key the registry does not hold change neither
\* the registry nor any controller, and abort() is called on none.
C20_AbsentKeyNoEffect ==
  [][(/\ lastOp'.op \in {"stop", "remove"}
      /\ key(lastOp'.c, lastOp'.m) \notin DOMAIN controllers)
     => /\ controllers' = controllers
        /\ aborted' = aborted
        /\ lastOp'.aborts = {}
        /\ ghost' = ghost]_vars

\* stop on a key never added, while a controller that was not aborted is held
C20_Witness ==
  /\ lastOp.op = "stop"
  /\ ghost[LastPair].st = "never"
  /\ key(lastOp.c, lastOp.m) \notin DOMAIN controllers
  /\ \E k \in DOMAIN controllers : ~aborted[controllers[k]]

(***************************************************************************)
(* The registry over the life of the streams, checked under SpecSession.   *)
(***************************************************************************)
Terminated(s) == pc[s] \in {"done", "threw"} /\ Unhandled(s) = <<>>
Registered(s) == \E i \in 1..Len(trace[s]) : trace[s][i] = onController

\* C11: the handle of a stream that has completed, reported an error or was
\* stopped is not in the registry, and once no stream is running hasPending()
\* is false.
C11_TerminatedNotRegistered ==
  /\ \A s \in Streams : Terminated(s) => s \notin Range(controllers)
  /\ (\A s \in Streams : pc[s] = "idle" \/ Terminated(s)) => ~hasPending(controllers)

\* Both streams registered their handle; the first was stopped, the second
\* completed; the registry is empty
C11_Witness ==
  /\ \A s \in Streams : Registered(s) /\ Terminated(s)
  /\ \E i \in 1..Len(trace[1]) : trace[1][i].ev = "cancel"
  /\ Undisturbed(2)
  /\ ~hasPending(controllers)

(***************************************************************************)
(* The key of the registry, checked under SpecKey.                         *)
(***************************************************************************)
\* C21: distinct pairs have distinct keys, so the registry holds an entry for
\* a pair exactly if the pair was added and not removed since, whatever was
\* done to the other pairs, and stop aborts the controller of its pair only.
C21_KeyInjective ==
  /\ \A p, q \in KeyPairs : key(p[1], p[2]) = key(q[1], q[2]) => p = q
  /\ \A p \in KeyPairs :
       IF ghost[p].st = "live"
       THEN /\ key(p[1], p[2]) \in DOMAIN controllers
            /\ controllers[key(p[1], p[2])] = ghost[p].h
       ELSE key(p[1], p[2]) \notin DOMAIN controllers
  /\ lastOp.op = "stop" =>
       lastOp.aborts = (IF ghost[LastPair].st = "live" THEN {ghost[LastPair].h} ELSE {})

\* (1, 11) was removed while (11, 1) and (111, 1) keep their entries
C21_Witness ==
  /\ lastOp.op = "remove"
  /\ LastPair = <<1, 11>>
  /\ ghost[<<1, 11>>].st = "removed"
  /\ key(11, 1) \in DOMAIN controllers
  /\ key(111, 1) \in DOMAIN controllers
  /\ key(1, 11) \notin DOMAIN controllers

(***************************************************************************)
(* Cancellation, the two timers and onController, checked under            *)
(* SpecStream.                                                             *)
(***************************************************************************)
Positions(s, ev) == {i \in 1..Len(trace[s]) : trace[s][i].ev = ev}

\* C22: a stream the caller cancelled while its fetch or read was pending
\* gets onError next, and no onMessage(text, true) at any time.
C22_CancelledNeverCompletes ==
  \A s \in Streams :
    \A i \in Positions(s, "cancel") :
      /\ i < Len(trace[s])
      /\ trace[s][i + 1].ev = "onError"
      /\ SelectSeq(trace[s], IsDone) = <<>>

\* C23: when the overall-response timer fires while the fetch is pending, the
\* next callback is onMessage(responseText, true), as for the idle timer.
C23_ReqTimeoutFinishes ==
  \A s \in Streams :
    \A i \in Positions(s, "reqTimeout") :
      /\ i < Len(trace[s])
      /\ trace[s][i + 1] = onMessage(responseText[s], TRUE)

\* C24: onController is called at most once, only after a response with a
\* status from 200 to 299, before every read and every onMessage; and an
\* abort() of the caller on the controller it was given rejects the pending
\* read of this stream, whose catch block then runs.
C24_OnControllerOnceBeforeReads ==
  \A s \in Streams :
    /\ Cardinality(Positions(s, "onController")) <= 1
    /\ \A i \in Positions(s, "onController") :
         /\ res[s] \in 200..299
         /\ \A j \in Positions(s, "read") \cup Positions(s, "onMessage")
                       \cup Positions(s, "onError") : i < j
    /\ (res[s] \notin 200..299 /\ pc[s] = "done") => Positions(s, "onController") = {}
    /\ \A i \in Positions(s, "cancel") :
         /\ Positions(s, "onController") # {}
         /\ i < Len(trace[s])
         /\ trace[s][i + 1] = onError("AbortError", NoStatus)

\* The caller aborted the controller after the first chunk
C24_Witness ==
  /\ Positions(1, "onController") # {}
  /\ Positions(1, "cancel") # {}
  /\ Len(received[1]) >= 1
  /\ res[1] = 200

(***************************************************************************)
(* Termination, checked under SpecStreamLive.                              *)
(***************************************************************************)
\* C25: a stream whose request was sent gets a terminal callback, whether or
\* not the server answers or goes on sending chunks, if armed timers fire.
C25_EveryStreamTerminates ==
  \A s \in SoloStreams : (pc[s] = "fetch") ~> (Terminals(s) # <<>>)

\* The idle timer ended a stream that had received a chunk
C25_Witness ==
  /\ Positions(1, "idleTimeout") # {}
  /\ Len(received[1]) >= 1
  /\ Terminals(1) # <<>>

(***************************************************************************)
(* A controller that outlives its stream, checked under SpecLinger.        *)
(***************************************************************************)
\* C26: once onMessage(text, true) was called the controller of the stream is
\* aborted, and no step, in particular no abort(), stop or stopAll that
\* reaches this controller again, adds a callback of the stream.
C26_FinishedHandleHarmless ==
  [][\A s \in Streams :
       SelectSeq(trace[s], IsDone) # <<>> =>
         /\ aborted[s]
         /\ SelectSeq(trace'[s], IsCallback) = SelectSeq(trace[s], IsCallback)]_vars

\* stop reached the controller of a stream that had ended with its last chunk
C26_Witness ==
  /\ lastOp.op = "stop"
  /\ lastOp.aborts = {1}
  /\ Undisturbed(1)
  /\ Len(received[1]) >= 1
  /\ Terminals(1) = <<onMessage(responseText[1], TRUE)>>

(***************************************************************************)
(* The contents of the sub-request and overlapping sub-requests, checked   *)
(* under SpecSummary.                                                      *)
(***************************************************************************)
\* C27: the sub-request for a target holds the instruction, the target and
\* the messages before the target that are not hidden, and no other message
\* of the conversation; for a target that is not in the conversation no
\* sub-request is issued.
C27_SubRequestContents ==
  req.file \in SummaryFiles =>
    LET i == indexOf(session.messages, req.target)
    IN  IF i = 0 THEN ~req.issued
        ELSE req.issued =>
               /\ Range(req.included) =
                    {k \in 1..i : k = i \/ ~session.messages[k].hidden}
               /\ \E n \in 1..Len(req.sub) : req.sub[n] = SummarizeIncremental
               /\ Len(req.sub) = Len(req.included) + 1

\* C29: whatever the order in which the responses of overlapping sub-requests
\* arrive, the summary and nSummaryTokens of a summarized message are those
\* of one response, and after a response with a summary they are those of
\* that response, with the flag set.
C29_OneResponseWins ==
  /\ \A i \in 1..Len(session.messages) :
       session.messages[i].useSummary =>
         \E r \in ChatResponses :
           /\ r.kind = "json"
           /\ TruthyText(r.content)
           /\ session.messages[i].summary = r.content
           /\ session.messages[i].nSummaryTokens = r.completion_tokens
  /\ (Settled /\ lastSum.response.kind = "json" /\ TruthyText(lastSum.response.content)) =>
       LET m == session.messages[indexOf(session.messages, lastSum.target)]
       IN  /\ m.useSummary
           /\ m.summary = lastSum.response.content
           /\ m.nSummaryTokens = lastSum.response.completion_tokens

\* Two sub-requests for the second message were in flight together (the
\* latest call saw the message without a summary) and both responses, first
\* "s" and then "t", have been applied
C29_Witness ==
  /\ Settled
  /\ lastSum.target = LongMessage.id
  /\ lastSum.before.summary = Some(<<"s">>)
  /\ lastSum.after.summary = Some(<<"t">>)
  /\ lastSum.after.nSummaryTokens = Some(4)
  /\ inflight = <<>>
  /\ req.file \in SummaryFiles
  /\ req.issued
  /\ req.target = LongMessage.id
  /\ req.out.messages[Len(req.out.messages)].content = LongMessage.content

(***************************************************************************)
(* Responses that do not parse, checked under SpecChat.                    *)
(***************************************************************************)
\* C28: when the response of requestChat does not parse, requestChat does not
\* throw, and its caller leaves the message (all messages, for
\* requestWithPrompt, which returns the empty text) as it was.
C28_UnparsableChangesNothing ==
  (Settled /\ lastSum.response.kind = "unparsable") =>
    /\ ~lastSum.threw
    /\ lastSum.after = lastSum.before
    /\ lastSum.caller = "requestWithPrompt" => lastSum.returned = Some(<<>>)

\* The response of annotateTokenCount did not parse, for a message that has a
\* summary and a token count from earlier responses
C28_Witness ==
  /\ Settled
  /\ lastSum.response.kind = "unparsable"
  /\ lastSum.caller = "annotateTokenCount"
  /\ lastSum.before.nTokens = Some(5)
  /\ lastSum.before.useSummary
  /\ session.messages[indexOf(session.messages, lastSum.target)] = lastSum.before

(***************************************************************************)
(* Several streams and one stop, checked under SpecSession.                *)
(***************************************************************************)
\* What requestChatStream holds for stream s, and the signal of its controller
StreamState(s) ==
  <<pc[s], res[s], reqTimeoutId[s], resTimeoutId[s], responseText[s], decoder[s],
    received[s], trace[s], aborted[s]>>

\* C30: stop(c, m) aborts no controller but the one its caller registered
\* under (c, m), and the step changes nothing of any other stream: its
\* position, its timers, its text, its callbacks and its signal stay as they
\* were, so it goes on reading.
C30_StopAbortsItsPairOnly ==
  [][(lastOp' # lastOp /\ lastOp'.op = "stop") =>
       /\ lastOp'.aborts \subseteq
            {s \in Streams : handled[s].pair = <<lastOp'.c, lastOp'.m>>}
       /\ \A s \in Streams \ lastOp'.aborts : StreamState(s)' = StreamState(s)]_vars

\* Two streams under different keys; stop aborted the first while it was
\* waiting, and the second received all its chunks and completed without an
\* error
C30_Witness ==
  /\ handled[1].pair # handled[2].pair
  /\ lastOp.op = "stop"
  /\ lastOp.aborts = {1}
  /\ \E i \in 1..Len(trace[1]) : trace[1][i].ev = "cancel"
  /\ ~aborted[2] \/ pc[2] = "done"
  /\ Len(received[2]) >= 2
  /\ Undisturbed(2)
  /\ Terminals(2) # <<>>
  /\ \A i \in 1..Len(Terminals(2)) : Terminals(2)[i].ev = "onMessage"

(***************************************************************************)
(* The frame of stop and stopAll, checked under SpecPool.                  *)
(***************************************************************************)
\* C31: a stop or stopAll call leaves the registry, and so the value of
\* hasPending(), as it was; a call after which the registry has fewer keys is
\* a remove, and one after which it has more keys is an addController; no
\* call both drops and adds keys.
C31_OnlyRemoveShrinksOnlyAddGrows ==
  [][/\ lastOp'.op \in {"stop", "stopAll"} =>
          /\ controllers' = controllers
          /\ hasPending(controllers') = hasPending(controllers)
     /\ DOMAIN controllers' # DOMAIN controllers =>
          \/ /\ lastOp'.op = "remove"
             /\ DOMAIN controllers' = DOMAIN controllers \ {key(lastOp'.c, lastOp'.m)}
          \/ /\ lastOp'.op = "addController"
             /\ DOMAIN controllers' = DOMAIN controllers \cup {key(lastOp'.c, lastOp'.m)}]_vars

\* stopAll was called with two keys registered: both controllers are aborted
\* and both keys are still registered
C31_Witness ==
  /\ lastOp.op = "stopAll"
  /\ Cardinality(DOMAIN controllers) = 2
  /\ Cardinality(lastOp.aborts) = 2
  /\ \A k \in DOMAIN controllers : aborted[controllers[k]]
  /\ hasPending(controllers)

====
